---- MODULE Spec2Model ----
(***************************************************************************)
(* RAPPOR client encoder (client/proto/rappor.cc, libc_rand.cc).           *)
(*                                                                         *)
(* A ByteVector (uint64_t) is modelled as the set of its 1-bit positions,  *)
(* a subset of 0..63.  A 32-bit int is a TLA+ integer in                   *)
(* -2^31 .. 2^31-1; its arithmetic is done on 16-bit halves so that the    *)
(* wrap modulo 2^32 is the one the machine produces.                       *)
(***************************************************************************)
EXTENDS Integers, Sequences, FiniteSets, TLC

\* ------------------------------------------------------------------ bounds
\* Largest num_hashes a parameter set of the model carries.
MaxHashes == 2

\* ------------------------------------------------------- program constants
\* Seed of the rolling string hash.
HashSeed == 5381
\* sizeof(ByteVector) * 8
WordBits == 64
\* sizeof(int) * 8: width of the literal 1 in `1 << bit_to_set`.
IntBits == 32

Half == 65536
HalfMax == 32767

Threads == {1, 2}

BitIdx == 0 .. (WordBits - 1)
AllBits == BitIdx
NoBits == {}

\* ----------------------------------------------------------------- inputs
\* num_bits of the parameter sets tried: the five widths of HashPartWidth,
\* a multiple of 8 that is none of them (24) and a non-multiple of 8 (12).
NumBitsValues == {8, 12, 16, 24, 32, 64, 128}
SupportedWidths == {8, 16, 32, 64, 128}

\* Values encoded, as sequences of (signed) chars:
\*   "x"; "\xff" (char is signed); "aaaaaa", whose hash wraps to a negative
\*   int.
ValX == <<120>>
ValHigh == <<-1>>
ValWrap == <<97, 97, 97, 97, 97, 97>>
Values == {ValX, ValHigh, ValWrap}

\* What an uninitialized ByteVector on the stack may hold.
Garbage == {NoBits, {1, 40}, AllBits}

\* The first two digest bytes md5[0], md5[1] a digest function may produce.
Digests == {<<8, 0>>, <<255, 255>>, <<5, 1>>}

\* ------------------------------------------------------------ bit vectors
BitAnd(a, b) == a \cap b
BitOr(a, b) == a \cup b
BitNot(a) == AllBits \ a
\* x >> k on a ByteVector
ShiftRight(a, k) == {b - k : b \in {c \in a : c >= k}}

RECURSIVE Pow2(_)
Pow2(n) == IF n = 0 THEN 1 ELSE 2 * Pow2(n - 1)

RECURSIVE SumPow(_)
SumPow(s) == IF s = {} THEN 0
             ELSE LET b == CHOOSE x \in s : TRUE IN Pow2(b) + SumPow(s \ {b})

\* (char)(x & 0xFF) as an unsigned byte value 0..255
LowByte(a) == SumPow({b \in a : b < 8})

\* ------------------------------------------------------ 32-bit arithmetic
\* (h << 5) + h + c on a 32-bit int: the wrapped result and whether the
\* mathematical result left the range of int (undefined behaviour).
Step33(h, c) ==
  LET lo == h % Half
      hi == (h - lo) \div Half
      t == lo * 33 + c
      lo2 == t % Half
      carry == (t - lo2) \div Half
      H == hi * 33 + carry
      hiW == ((H + HalfMax + 1) % Half) - (HalfMax + 1)
  IN [val |-> hiW * Half + lo2,
      ovf |-> (H > HalfMax) \/ (H < -(HalfMax + 1)) \/ (h < 0)]

\* The inner loop of Encoder::Encode over value[j .. size-1].
RECURSIVE HashLoop(_, _, _)
HashLoop(v, j, acc) ==
  IF j > Len(v) THEN acc
  ELSE LET s == Step33(acc.val, v[j])
       IN HashLoop(v, j + 1, [val |-> s.val, ovf |-> acc.ovf \/ s.ovf])

StringHash(v) == HashLoop(v, 1, [val |-> HashSeed, ovf |-> FALSE])

\* C's h % n for int h and int n > 0: the remainder has the sign of h.
CRem(h, n) ==
  LET m == h % n IN IF h >= 0 \/ m = 0 THEN m ELSE m - n

\* Conversion of an int r, -2^16 < r < 2^16, to unsigned int, as 16-bit
\* halves.
ToUnsigned(r) ==
  IF r >= 0 THEN [hi |-> 0, lo |-> r] ELSE [hi |-> Half - 1, lo |-> Half + r]

\* (uint64_t)(int)(1 << k) for 0 <= k < 32: bit 31 is the sign bit and the
\* conversion to ByteVector sign-extends it.
IntOneShl(k) == IF k < IntBits - 1 THEN {k} ELSE (IntBits - 1) .. (WordBits - 1)

\* The values `1 << cnt` may produce, cnt an unsigned int in halves.  A count
\* of 32 or more is undefined: the machine's shift takes the count modulo 32
\* or yields 0.
ShiftOne(cnt) ==
  IF cnt.hi = 0 /\ cnt.lo < IntBits THEN {IntOneShl(cnt.lo)}
  ELSE {IntOneShl(cnt.lo % IntBits), NoBits}

\* ------------------------------------------------------------ constructors
HashPartWidth(bloom_width) ==
  CASE bloom_width = 8 -> 3
    [] bloom_width = 16 -> 4
    [] bloom_width = 32 -> 5
    [] bloom_width = 64 -> 6
    [] bloom_width = 128 -> 7
    [] OTHER -> -1

\* Encoder::Encoder
EncoderCtor(num_bits, num_hashes) ==
  [kind |-> "A", num_bits |-> num_bits, num_hashes |-> num_hashes,
   hash_part_width_ |-> 0,
   num_bytes_ |-> IF num_bits % 8 = 0 THEN num_bits \div 8 ELSE 0,
   is_valid_ |-> (num_bits % 8 = 0)]

\* Encoder2::Encoder2
Encoder2Ctor(num_bits, num_hashes) ==
  [kind |-> "B", num_bits |-> num_bits, num_hashes |-> num_hashes,
   hash_part_width_ |-> HashPartWidth(num_bits),
   num_bytes_ |-> IF num_bits % 8 = 0 THEN num_bits \div 8 ELSE 0,
   is_valid_ |-> (num_bits % 8 = 0)]

NoEncoder ==
  [kind |-> "none", num_bits |-> 0, num_hashes |-> 0, hash_part_width_ |-> 0,
   num_bytes_ |-> 0, is_valid_ |-> FALSE]

\* ------------------------------------------- deterministic capability
\* DeterministicRandInterface: seed(value) re-initializes the state from the
\* value; the n-th draw after a seed depends only on the seed and on n.
RECURSIVE SeqSum(_)
SeqSum(s) == IF s = <<>> THEN 0 ELSE Head(s) + SeqSum(Tail(s))

Unseeded == <<0>>

DetDraw(seed, n, thr) ==
  LET s == SeqSum(seed) % 251
  IN {b \in BitIdx : ((s + 3) * (n + 2) + b * (n + 1) + b * b) % 7 < thr}

\* Thresholds (out of 7) of the two kinds of draw: f_bits is biased by
\* prob_f, uniform is about one half.
ThrF == 2
ThrU == 3

\* --------------------------------------------------- per-report capability
\* LibcRand::p_bits / LibcRand::q_bits
LibcRandBits == NoBits
\* What an implementation of RandInterface may return for p_bits / q_bits:
\* LibcRand's constant, all ones, the low byte, a mixed pattern.
RandDraws == {LibcRandBits, AllBits, 0 .. 7, {0, 2, 9, 33}}

\* ------------------------------------------------------------------ state
VARIABLES
  enc,       \* enc[t]: the encoder object thread t calls (fields of Encoder / Encoder2)
  pc,        \* pc[t]: position of thread t's Encode call
  fr,        \* fr[t]: the locals of thread t's Encode call, *output, and its log
  det_rand,  \* the shared DeterministicRandInterface object: seed and draws since
  memo       \* memo[t][v]: the first PRR enc[t] computed for value v

vars == <<enc, pc, fr, det_rand, memo>>

NoPrr == {-1}
Caps == {"seed", "f_bits", "uniform", "p_bits", "q_bits"}

EmptyFrame ==
  [value |-> <<>>, i |-> 0, h |-> 0, hash |-> 0,
   bit_to_set |-> [hi |-> 0, lo |-> 0], bits |-> <<>>,
   bloom |-> NoBits, bloom0 |-> NoBits,
   f_bits |-> NoBits, uniform |-> NoBits, prr |-> NoBits,
   f_src |-> [seed |-> Unseeded, n |-> 0], u_src |-> [seed |-> Unseeded, n |-> 0],
   p_bits |-> NoBits, q_bits |-> NoBits, irr |-> NoBits, irr0 |-> NoBits,
   output |-> <<>>, oob |-> FALSE, ret |-> "none",
   calls |-> [c \in Caps |-> 0]]

Init ==
  /\ enc = [t \in Threads |-> NoEncoder]
  /\ pc = [t \in Threads |-> "new"]
  /\ fr = [t \in Threads |-> EmptyFrame]
  /\ det_rand = [seed |-> Unseeded, n |-> 0]
  /\ memo = [t \in Threads |-> [v \in Values |-> NoPrr]]

Called(f, c) == [f EXCEPT !.calls[c] = @ + 1]

\* ---------------------------------------------------------------- actions
\* Encoder::Encoder / Encoder2::Encoder2
Construct(t, kind, num_bits, num_hashes) ==
  /\ pc[t] \in {"new", "idle", "done"}
  /\ enc' = [enc EXCEPT ![t] = IF kind = "A" THEN EncoderCtor(num_bits, num_hashes)
                                             ELSE Encoder2Ctor(num_bits, num_hashes)]
  /\ pc' = [pc EXCEPT ![t] = "idle"]
  /\ fr' = [fr EXCEPT ![t] = EmptyFrame]
  /\ memo' = [memo EXCEPT ![t] = [v \in Values |-> NoPrr]]
  /\ UNCHANGED det_rand

\* Entry of Encode(value, output): `ByteVector bloom;` is not initialized.
Start(t, v, g) ==
  /\ pc[t] \in {"idle", "done"}
  /\ fr' = [fr EXCEPT ![t] = [EmptyFrame EXCEPT !.value = v, !.bloom = g, !.bloom0 = g]]
  /\ pc' = [pc EXCEPT ![t] = IF enc[t].kind = "A" THEN "hash" ELSE "md5"]
  /\ UNCHANGED <<enc, det_rand, memo>>

\* The process aborts (overflow trap, or a fault on a wild write).
Trap(t) ==
  /\ pc' = [pc EXCEPT ![t] = "trapped"]
  /\ UNCHANGED <<enc, fr, det_rand, memo>>

\* One iteration of the hash loop of Encoder::Encode.
HashA(t) ==
  /\ pc[t] = "hash"
  /\ LET sh == StringHash(fr[t].value)
         b == ToUnsigned(CRem(sh.val, enc[t].num_bits))
     IN \/ /\ sh.ovf
           /\ Trap(t)
        \/ \E s \in ShiftOne(b) :
             /\ fr' = [fr EXCEPT ![t].h = sh.val, ![t].bit_to_set = b,
                                 ![t].bits = Append(@, b),
                                 ![t].bloom = BitOr(@, s),
                                 ![t].i = @ + 1]
             /\ pc' = [pc EXCEPT ![t] = IF fr[t].i + 1 < enc[t].num_hashes
                                        THEN "hash" ELSE "seed"]
             /\ UNCHANGED <<enc, det_rand, memo>>

\* det_rand_->seed(value)
Seed(t) ==
  /\ pc[t] = "seed"
  /\ det_rand' = [seed |-> fr[t].value, n |-> 0]
  /\ fr' = [fr EXCEPT ![t] = Called(@, "seed")]
  /\ pc' = [pc EXCEPT ![t] = "f_bits"]
  /\ UNCHANGED <<enc, memo>>

\* ByteVector f_bits = det_rand_->f_bits()
FBits(t) ==
  /\ pc[t] = "f_bits"
  /\ fr' = [fr EXCEPT ![t] = [Called(@, "f_bits") EXCEPT
                                !.f_bits = DetDraw(det_rand.seed, det_rand.n, ThrF),
                                !.f_src = det_rand]]
  /\ det_rand' = [det_rand EXCEPT !.n = @ + 1]
  /\ pc' = [pc EXCEPT ![t] = "uniform"]
  /\ UNCHANGED <<enc, memo>>

\* The PRR with the mask on bloom left out: (f_bits & uniform) | bloom.
PrrUnmasked(f_bits, uniform, bloom) ==
  BitOr(BitAnd(f_bits, uniform), bloom)

\* prr = (f_bits & uniform) | (bloom & ~uniform)
PrrOf(f_bits, uniform, bloom) ==
  BitOr(BitAnd(f_bits, uniform), BitAnd(bloom, BitNot(uniform)))

\* ByteVector uniform = det_rand_->uniform(), then the PRR.  rec: whether the
\* history variable memo records this call's PRR.
Uniform(t, rec) ==
  /\ pc[t] = "uniform"
  /\ LET u == DetDraw(det_rand.seed, det_rand.n, ThrU)
         p == PrrOf(fr[t].f_bits, u, fr[t].bloom)
         v == fr[t].value
     IN /\ fr' = [fr EXCEPT ![t] = [Called(@, "uniform") EXCEPT
                                      !.uniform = u, !.u_src = det_rand, !.prr = p]]
        /\ memo' = [memo EXCEPT ![t][v] = IF rec /\ @ = NoPrr THEN p ELSE @]
  /\ det_rand' = [det_rand EXCEPT !.n = @ + 1]
  /\ pc' = [pc EXCEPT ![t] = "p_bits"]
  /\ UNCHANGED enc

\* ByteVector p_bits = rand_.p_bits()
PBits(t, x) ==
  /\ pc[t] = "p_bits"
  /\ fr' = [fr EXCEPT ![t] = [Called(@, "p_bits") EXCEPT !.p_bits = x]]
  /\ pc' = [pc EXCEPT ![t] = "q_bits"]
  /\ UNCHANGED <<enc, det_rand, memo>>

\* The IRR with p_bits and q_bits exchanged: (q_bits & ~prr) | (p_bits & prr).
IrrSwapped(p_bits, q_bits, prr) ==
  BitOr(BitAnd(q_bits, BitNot(prr)), BitAnd(p_bits, prr))

\* irr = (p_bits & ~prr) | (q_bits & prr)
IrrOf(p_bits, q_bits, prr) ==
  BitOr(BitAnd(p_bits, BitNot(prr)), BitAnd(q_bits, prr))

\* ByteVector q_bits = rand_.q_bits(), then the IRR.
QBits(t, x) ==
  /\ pc[t] = "q_bits"
  /\ LET r == IrrOf(fr[t].p_bits, x, fr[t].prr)
     IN fr' = [fr EXCEPT ![t] = [Called(@, "q_bits") EXCEPT
                                   !.q_bits = x, !.irr = r, !.irr0 = r]]
  /\ pc' = [pc EXCEPT ![t] = "pack"]
  /\ UNCHANGED <<enc, det_rand, memo>>

\* The copy loop.  `output` is a std::string*, so output[i] is the i-th
\* std::string of an array starting at *output: output[0] = c assigns the
\* one-character string c to *output, and output[i], i >= 1, is a write past
\* the object, which faults at i = 1 or goes through (oob).  reserve() does
\* not change the size.
Pack(t) ==
  /\ pc[t] = "pack"
  /\ LET n == enc[t].num_bytes_
         f == [fr[t] EXCEPT !.output = IF n >= 1 THEN <<LowByte(fr[t].irr)>> ELSE @,
                            !.irr = ShiftRight(@, 8 * n),
                            !.i = n]
     IN \/ /\ n >= 2
           /\ fr' = [fr EXCEPT ![t] = [f EXCEPT !.irr = ShiftRight(fr[t].irr, 8), !.i = 1]]
           /\ pc' = [pc EXCEPT ![t] = "trapped"]
        \/ /\ fr' = [fr EXCEPT ![t] = [f EXCEPT !.oob = (n >= 2)]]
           /\ pc' = [pc EXCEPT ![t] = "ret"]
  /\ UNCHANGED <<enc, det_rand, memo>>

\* md5_func_(value, md5); hash = md5[0] | md5[1] << 8
Md5(t, d) ==
  /\ pc[t] = "md5"
  /\ fr' = [fr EXCEPT ![t].hash = d[1] + 256 * d[2]]
  /\ pc' = [pc EXCEPT ![t] = "hash2"]
  /\ UNCHANGED <<enc, det_rand, memo>>

\* One iteration of the hash loop of Encoder2::Encode.  The statement
\* `hash >> hash_part_width_;` discards its result: hash is unchanged.
HashB(t) ==
  /\ pc[t] = "hash2"
  /\ LET b == ToUnsigned(fr[t].hash % enc[t].num_bits)
     IN \E s \in ShiftOne(b) :
          fr' = [fr EXCEPT ![t].bit_to_set = b,
                           ![t].bits = Append(@, b),
                           ![t].bloom = BitOr(@, s),
                           ![t].hash = @,
                           ![t].i = @ + 1]
  /\ pc' = [pc EXCEPT ![t] = IF fr[t].i + 1 < enc[t].num_hashes THEN "hash2" ELSE "ret"]
  /\ UNCHANGED <<enc, det_rand, memo>>

\* Control reaches the closing brace of a bool function without a return
\* statement: the caller reads an unspecified value.
Return(t, r) ==
  /\ pc[t] = "ret"
  /\ fr' = [fr EXCEPT ![t].ret = r]
  /\ pc' = [pc EXCEPT ![t] = "done"]
  /\ UNCHANGED <<enc, det_rand, memo>>

\* ---------------------------------------------------------- specifications
StepA(t, rec, draws) ==
  \/ HashA(t)
  \/ Seed(t)
  \/ FBits(t)
  \/ Uniform(t, rec)
  \/ \E x \in draws : PBits(t, x)
  \/ \E x \in draws : QBits(t, x)
  \/ Pack(t)
  \/ \E r \in BOOLEAN : Return(t, r)

StepB(t) ==
  \/ \E d \in Digests : Md5(t, d)
  \/ HashB(t)

\* One thread: a sequence of constructions and Encode calls.
Next ==
  \/ \E k \in {"A", "B"}, nb \in NumBitsValues, nh \in 1 .. MaxHashes :
       Construct(1, k, nb, nh)
  \/ \E v \in Values, g \in Garbage : Start(1, v, g)
  \/ StepA(1, FALSE, RandDraws)
  \/ StepB(1)

Spec == Init /\ [][Next]_vars

\* One thread and one variant A encoder at a time, of a width whose output is
\* one or two bytes, with LibcRand as the per-report capability; memo keeps
\* the first PRR of each value.
MemoWidths == {8, 16}

NextMemo ==
  \/ \E nb \in MemoWidths, nh \in 1 .. MaxHashes : Construct(1, "A", nb, nh)
  \/ \E v \in Values, g \in Garbage : Start(1, v, g)
  \/ StepA(1, TRUE, {LibcRandBits})

SpecMemo == Init /\ [][NextMemo]_vars

\* Two threads, each with its own variant A encoder of width 8, calling
\* Encode concurrently on the one shared deterministic capability.  A step
\* is one capability call with the local computation that follows it.
ConcValues == {ValX, ValHigh}

NextConc ==
  \E t \in Threads :
    \/ Construct(t, "A", 8, 1)
    \/ \E v \in ConcValues, g \in Garbage : Start(t, v, g)
    \/ StepA(t, FALSE, {LibcRandBits})

SpecConc == Init /\ [][NextConc]_vars

\* ------------------------------------------------------------- properties
Constructed(t) == enc[t].kind # "none"
InCall(t) == pc[t] \notin {"new", "idle"}
\* The positions of the call where the PRR of line 87 has been computed.
AfterPrr == {"p_bits", "q_bits", "pack", "ret", "done"}
\* The bits of a vector at the positions [0, n).
Low(a, n) == {b \in a : b < n}
\* Byte k of a vector: bits [8k, 8k+8).
ByteAt(a, k) == LowByte(ShiftRight(a, 8 * k))
\* Chunk i of width w of an integer: bits [i*w, (i+1)*w).
Chunk(x, i, w) == (x \div Pow2(i * w)) % Pow2(w)

\* C1: an encoder of either variant is valid exactly when num_bits is one of
\* 8, 16, 32, 64, 128, then with num_bytes = num_bits / 8; Encoder2 is invalid
\* whenever HashPartWidth(num_bits) is -1.
C1_ValidityLatched ==
  \A t \in Threads :
    Constructed(t) =>
      /\ enc[t].is_valid_ <=> (enc[t].num_bits \in SupportedWidths)
      /\ enc[t].is_valid_ => enc[t].num_bytes_ * 8 = enc[t].num_bits
      /\ (enc[t].kind = "B" /\ HashPartWidth(enc[t].num_bits) = -1) => ~enc[t].is_valid_

\* C2: Encode on an invalid encoder calls no randomness capability, writes
\* nothing to the output and reports failure.
C2_InvalidRefuses ==
  \A t \in Threads :
    (Constructed(t) /\ ~enc[t].is_valid_ /\ InCall(t)) =>
      /\ \A c \in Caps : fr[t].calls[c] = 0
      /\ fr[t].output = <<>>
      /\ pc[t] = "done" => fr[t].ret = FALSE

\* C3: after Encode on a valid Encoder the output holds exactly num_bytes
\* bytes and byte k is bits [8k, 8k+8) of the IRR vector.
C3_OutputPacked ==
  \A t \in Threads :
    (enc[t].kind = "A" /\ enc[t].is_valid_ /\ pc[t] \in {"ret", "done"}) =>
      /\ Len(fr[t].output) = enc[t].num_bytes_
      /\ \A k \in 1 .. Len(fr[t].output) : fr[t].output[k] = ByteAt(fr[t].irr0, k - 1)

\* C4: every call of one encoder that encodes the same value computes the
\* same PRR bits (compared on the num_bits positions of the report).
C4_Memoization ==
  \A t \in Threads :
    (enc[t].kind = "A" /\ pc[t] \in AfterPrr) =>
      Low(memo[t][fr[t].value], enc[t].num_bits) = Low(fr[t].prr, enc[t].num_bits)

\* C5: each call's f_bits and uniform are the first and the second draw that
\* follow its own seed(value), also when another call runs concurrently.
C5_SeedDrawAtomic ==
  \A t \in Threads :
    (enc[t].kind = "A" /\ pc[t] \in AfterPrr) =>
      /\ fr[t].f_src = [seed |-> fr[t].value, n |-> 0]
      /\ fr[t].u_src = [seed |-> fr[t].value, n |-> 1]

\* C6: in Encoder2::Encode the position set for hash index i is chunk i, of
\* hash_part_width bits, of the digest-derived integer, and lies in
\* [0, num_bits).
C6_DigestSlices ==
  \A t \in Threads :
    (enc[t].kind = "B" /\ enc[t].is_valid_ /\ enc[t].hash_part_width_ > 0) =>
      \A k \in 1 .. Len(fr[t].bits) :
        /\ fr[t].bits[k].hi = 0
        /\ fr[t].bits[k].lo < enc[t].num_bits
        /\ fr[t].bits[k].lo = Chunk(fr[t].hash, k - 1, enc[t].hash_part_width_)

\* C7: after the hash stage of Encoder::Encode, for a supported width up to
\* 64, bloom has exactly the bits hash(value) mod num_bits; for width 8, one
\* hash and "x" that is one bit, and with f_bits = 0, p_bits = 0, q_bits all
\* ones the output byte is that one-hot byte.
C7_BloomExact ==
  \A t \in Threads :
    (enc[t].kind = "A" /\ enc[t].num_bits \in SupportedWidths
       /\ enc[t].num_bits <= WordBits /\ pc[t] \in {"seed", "f_bits", "uniform"} \cup AfterPrr) =>
      /\ fr[t].bloom = {StringHash(fr[t].value).val % enc[t].num_bits}
      /\ (fr[t].value = ValX /\ enc[t].num_bits = 8 /\ enc[t].num_hashes = 1) =>
           /\ Cardinality(fr[t].bloom) = 1
           /\ (pc[t] \in {"ret", "done"} /\ fr[t].f_bits = NoBits /\ fr[t].p_bits = NoBits
                 /\ fr[t].q_bits = AllBits) => fr[t].output = <<LowByte(fr[t].bloom)>>

\* C10: every bit_to_set computed by Encoder::Encode lies in [0, num_bits).
C10_BitInRange ==
  \A t \in Threads :
    enc[t].kind = "A" =>
      \A k \in 1 .. Len(fr[t].bits) :
        fr[t].bits[k].hi = 0 /\ fr[t].bits[k].lo < enc[t].num_bits

\* C8: at every position i of the report, prr bit i is f_bits bit i where
\* uniform bit i is 1 and bloom bit i where it is 0; f_bits and uniform are
\* the first and second draw after seed(value).
C8_PrrPerBit ==
  \A t \in Threads :
    (enc[t].kind = "A" /\ pc[t] \in AfterPrr) =>
      /\ \A i \in 0 .. (enc[t].num_bits - 1) :
           (i \in fr[t].prr) <=>
             IF i \in fr[t].uniform THEN i \in fr[t].f_bits ELSE i \in fr[t].bloom
      /\ fr[t].calls["seed"] = 1 /\ fr[t].calls["f_bits"] = 1 /\ fr[t].calls["uniform"] = 1
      /\ fr[t].f_bits = DetDraw(fr[t].value, 0, ThrF)
      /\ fr[t].uniform = DetDraw(fr[t].value, 1, ThrU)

\* A call has computed a PRR that takes a 1 from f_bits, a 0 from f_bits, a 1
\* from bloom and a 0 from bloom.
C8_Witness ==
  \E t \in Threads :
    /\ enc[t].kind = "A" /\ pc[t] = "p_bits"
    /\ \E i, j, k, l \in 0 .. (enc[t].num_bits - 1) :
         /\ i \in fr[t].uniform /\ i \in fr[t].f_bits /\ i \notin fr[t].bloom
         /\ j \in fr[t].uniform /\ j \notin fr[t].f_bits /\ j \in fr[t].bloom
         /\ k \notin fr[t].uniform /\ k \in fr[t].bloom /\ k \notin fr[t].f_bits
         /\ l \notin fr[t].uniform /\ l \notin fr[t].bloom /\ l \in fr[t].f_bits

AllZero(a, n) == \A i \in 0 .. (n - 1) : i \notin a
AllOne(a, n) == \A i \in 0 .. (n - 1) : i \in a

\* C9: every Encode call draws p_bits and q_bits once each; with p_bits all 0
\* and q_bits all 1 the IRR equals the PRR at all num_bits positions, and
\* with both all 1 the IRR is all 1 there.
C9_IrrEdges ==
  \A t \in Threads :
    (enc[t].kind = "A" /\ pc[t] \in {"pack", "ret", "done"}) =>
      LET n == enc[t].num_bits IN
      /\ fr[t].calls["p_bits"] = 1 /\ fr[t].calls["q_bits"] = 1
      /\ (AllZero(fr[t].p_bits, n) /\ AllOne(fr[t].q_bits, n)) =>
           \A i \in 0 .. (n - 1) : (i \in fr[t].irr0) <=> (i \in fr[t].prr)
      /\ (AllOne(fr[t].p_bits, n) /\ AllOne(fr[t].q_bits, n)) => AllOne(fr[t].irr0, n)

\* A call has passed a PRR with both 0 and 1 bits through p_bits = 0,
\* q_bits = all ones.
C9_Witness ==
  \E t \in Threads :
    /\ enc[t].kind = "A" /\ pc[t] = "pack"
    /\ AllZero(fr[t].p_bits, enc[t].num_bits) /\ AllOne(fr[t].q_bits, enc[t].num_bits)
    /\ \E i, j \in 0 .. (enc[t].num_bits - 1) : i \in fr[t].prr /\ j \notin fr[t].prr

====
